---- MODULE Spec2Model ----
(***************************************************************************)
(* Model of the name resolution library (open-names/resolution).           *)
(*                                                                         *)
(* Two source variants are modelled side by side:                          *)
(*   "index"   = src/src/index.ts                                          *)
(*   "part000" = src/unnamed/part_000                                      *)
(*                                                                         *)
(* Strings are sequences of one-character strings.  Byte buffers of the    *)
(* resolver are symbolic values (tagged tuples); byte buffers of the       *)
(* record decoder are sequences of numbers 0..255.                         *)
(***************************************************************************)
EXTENDS Integers, Sequences, FiniteSets, TLC

\* ------------------------------------------------------------------ bounds
NumCalls == 2
MaxPathLen == 2
MaxNonce == 2
MaxDomainLen == 3
MaxExtra == 2

\* ------------------------------------------------------- symbolic values
Undefined == <<"undefined">>

Null == [null |-> TRUE]

\* Buffer.alloc(32)
Zero32 == <<"zero32">>

\* bytes of some caller-supplied key that is not all zero
ExtBytes == <<"extbytes">>

NAME_PROGRAM_ID_BASE58 == "namesLPneVptA9Z5rqUDD9tMTWEJwofgaYwp8cawRkX"

HASH_PREFIX == <<"S","P","L"," ","N","a","m","e"," ","S","e","r","v","i","c","e">>

\* new PublicKey(buffer) / PublicKey.toBuffer()
NewPublicKey(buf) == <<"PublicKey", buf>>

toBuffer(pk) == pk[2]

NAME_PROGRAM_ID == NewPublicKey(<<"base58", NAME_PROGRAM_ID_BASE58>>)

ZeroKey == NewPublicKey(Zero32)

ExtKey == NewPublicKey(ExtBytes)

Variants == {"index", "part000"}

Chars == {"a", "A", ".", " "}

Labels == {<<>>, <<"a">>, <<"A">>}

ConcLabels == {<<"a">>}

RECURSIVE SeqsUpTo(_, _)
SeqsUpTo(S, n) ==
  IF n = 0 THEN {<<>>}
  ELSE LET shorter == SeqsUpTo(S, n - 1)
       IN shorter \cup {Append(s, x) : s \in shorter, x \in S}

Paths == SeqsUpTo(Labels, MaxPathLen)

ConcPaths == SeqsUpTo(ConcLabels, MaxPathLen)

Domains == SeqsUpTo(Chars, MaxDomainLen)

Parents == {Undefined, ZeroKey, ExtKey}

ConcParents == {Undefined, ExtKey}

ParentClasses == {"zero", "ext", "pda"}

VARIABLES variant, calls, hardPoint, hardSkip, query

vars == <<variant, calls, hardPoint, hardSkip, query>>

Calls == 1..NumCalls

\* ------------------------------------------------------ string primitives
\* String.prototype.toLowerCase
LowerChar(ch) == IF ch = "A" THEN "a" ELSE ch

toLowerCase(s) == [k \in 1..Len(s) |-> LowerChar(s[k])]

IsSpace(ch) == ch = " "

\* String.prototype.trim
RECURSIVE trimStart(_)
trimStart(s) == IF Len(s) > 0 /\ IsSpace(Head(s)) THEN trimStart(Tail(s)) ELSE s

RECURSIVE trimEnd(_)
trimEnd(s) ==
  IF Len(s) > 0 /\ IsSpace(s[Len(s)]) THEN trimEnd(SubSeq(s, 1, Len(s) - 1)) ELSE s

trim(s) == trimEnd(trimStart(s))

\* String.prototype.split(sep) for a one-character separator
RECURSIVE splitFrom(_, _, _, _)
splitFrom(s, sep, k, cur) ==
  IF k > Len(s) THEN <<cur>>
  ELSE IF s[k] = sep THEN <<cur>> \o splitFrom(s, sep, k + 1, <<>>)
  ELSE splitFrom(s, sep, k + 1, Append(cur, s[k]))

split(s, sep) == splitFrom(s, sep, 1, <<>>)

\* --------------------------------------------------------------- Hasher
getHashedName(name) == <<"digest", HASH_PREFIX \o name>>

\* ----------------------------------------------- program derived address
Ok(v) == [ok |-> TRUE, value |-> v, error |-> "none"]

Failure(msg) == [ok |-> FALSE, value |-> Undefined, error |-> msg]

LabelOf(digest) == SubSeq(digest[2], Len(HASH_PREFIX) + 1, Len(digest[2]))

ParentClassOf(buf) ==
  IF buf = Zero32 THEN "zero" ELSE IF buf = ExtBytes THEN "ext" ELSE "pda"

\* whether the candidate hash of (seeds, nonce) is a point of the curve:
\* the first hardSkip nonces tried for the seeds at hardPoint are on the curve
is_on_curve(seeds, nonce) ==
  /\ <<LabelOf(seeds[1]), ParentClassOf(seeds[3])>> = hardPoint
  /\ nonce > MaxNonce - hardSkip

createProgramAddress(seeds, programId) ==
  IF is_on_curve(SubSeq(seeds, 1, 3), seeds[4])
  THEN Failure("Invalid seeds, address must fall off the curve")
  ELSE Ok(NewPublicKey(<<"pda", seeds, toBuffer(programId)>>))

RECURSIVE findFromNonce(_, _, _)
findFromNonce(seeds, programId, nonce) ==
  IF nonce = 0
  THEN Failure("Unable to find a viable program address nonce")
  ELSE LET r == createProgramAddress(Append(seeds, nonce), programId)
       IN IF r.ok THEN r ELSE findFromNonce(seeds, programId, nonce - 1)

findProgramAddress(seeds, programId) == findFromNonce(seeds, programId, MaxNonce)

\* the seed list built before the await of findProgramAddress
resolveNameAccountKey(hashed_name, nameClass, nameParent) ==
  << hashed_name,
     IF nameClass # Undefined THEN toBuffer(nameClass) ELSE Zero32,
     IF nameParent # Undefined THEN toBuffer(nameParent) ELSE Zero32 >>

\* the (name, parent, klass) entry handing its arguments on in the order it got them
resolveNameAccountKeyByName_index_unswapped(name, parent, klass) ==
  resolveNameAccountKey(getHashedName(name), parent, klass)

\* src/src/index.ts: (name, parent, klass)
resolveNameAccountKeyByName_index(name, parent, klass) ==
  resolveNameAccountKey(getHashedName(name), klass, parent)

\* src/unnamed/part_000: (name, klass, parent)
resolveNameAccountKeyByName_part000(name, klass, parent) ==
  resolveNameAccountKey(getHashedName(name), klass, parent)

\* the call made by the loop body of resolve_UTF8_ONS in each variant
CallByName(v, name, parentNameKey) ==
  IF v = "index"
  THEN resolveNameAccountKeyByName_index(name, parentNameKey, Undefined)
  ELSE resolveNameAccountKeyByName_part000(name, Undefined, parentNameKey)

\* ------------------------------------------------------- resolve_UTF8_ONS
IdleCall ==
  [pc |-> "idle", entry |-> "none", domain |-> <<>>, path |-> <<>>,
   unknownParent |-> Undefined, i |-> 0, parentNameKey |-> Undefined,
   keys |-> <<>>, pending |-> <<>>, result |-> Undefined, error |-> "none",
   log |-> <<>>]

EmptyPathError == "name path is empty array, can not create get the key path."

\* loop head: test i >= 0, then run the body up to its await, or return keys
LoopHead(v, st) ==
  IF st.i >= 1
  THEN [st EXCEPT !.pc = "awaiting",
                  !.pending = CallByName(v, st.path[st.i], st.parentNameKey),
                  !.log = Append(st.log, <<"start", st.i>>)]
  ELSE [st EXCEPT !.pc = "resolved", !.result = st.keys, !.pending = <<>>]

\* the entry without its test of the path length
Enter_noguard(v, st, path, unknownParent) ==
  LoopHead(v, [st EXCEPT !.path = path, !.unknownParent = unknownParent,
                        !.i = Len(path), !.parentNameKey = unknownParent])

\* entry of the async function up to its first await
Enter(v, st, path, unknownParent) ==
  IF Len(path) = 0
  THEN [st EXCEPT !.path = path, !.unknownParent = unknownParent,
                  !.pc = "rejected", !.error = EmptyPathError]
  ELSE LoopHead(v, [st EXCEPT !.path = path, !.unknownParent = unknownParent,
                             !.i = Len(path), !.parentNameKey = unknownParent])

\* the continuation with push in place of unshift
Continue_push(v, st, r) ==
  IF ~r.ok
  THEN [st EXCEPT !.pc = "rejected", !.error = r.error, !.pending = <<>>,
                  !.log = Append(st.log, <<"throw", st.i>>)]
  ELSE LoopHead(v, [st EXCEPT !.keys = Append(st.keys, r.value),
                              !.parentNameKey = r.value,
                              !.i = st.i - 1,
                              !.log = Append(st.log, <<"end", st.i>>)])

\* the continuation that leaves the running parent at the unknownParent
Continue_nochain(v, st, r) ==
  IF ~r.ok
  THEN [st EXCEPT !.pc = "rejected", !.error = r.error, !.pending = <<>>,
                  !.log = Append(st.log, <<"throw", st.i>>)]
  ELSE LoopHead(v, [st EXCEPT !.keys = <<r.value>> \o st.keys,
                              !.i = st.i - 1,
                              !.log = Append(st.log, <<"end", st.i>>)])

\* the continuation that catches a failed derivation and returns the keys so far
Continue_partial(v, st, r) ==
  IF ~r.ok
  THEN [st EXCEPT !.pc = "resolved", !.result = st.keys, !.pending = <<>>,
                  !.log = Append(st.log, <<"throw", st.i>>)]
  ELSE LoopHead(v, [st EXCEPT !.keys = <<r.value>> \o st.keys,
                              !.parentNameKey = r.value,
                              !.i = st.i - 1,
                              !.log = Append(st.log, <<"end", st.i>>)])

\* continuation after the await: unshift, parent := key, i--, loop head
Continue(v, st, r) ==
  IF ~r.ok
  THEN [st EXCEPT !.pc = "rejected", !.error = r.error, !.pending = <<>>,
                  !.log = Append(st.log, <<"throw", st.i>>)]
  ELSE LoopHead(v, [st EXCEPT !.keys = <<r.value>> \o st.keys,
                              !.parentNameKey = r.value,
                              !.i = st.i - 1,
                              !.log = Append(st.log, <<"end", st.i>>)])

resolve_UTF8_ONS(c, path, unknownParent) ==
  /\ calls[c].pc = "idle"
  /\ calls' = [calls EXCEPT ![c] =
                 Enter(variant, [IdleCall EXCEPT !.entry = "UTF8"], path, unknownParent)]
  /\ UNCHANGED <<variant, hardPoint, hardSkip, query>>

\* the normalisation without the case folding
names_nolower(domain) == split(trim(domain), ".")

\* let names = domain.trim().toLowerCase().split('.')
names(domain) == split(toLowerCase(trim(domain)), ".")

resolve_STD_ONS(c, domain, unknownParent) ==
  /\ calls[c].pc = "idle"
  /\ calls' = [calls EXCEPT ![c] =
                 Enter(variant, [IdleCall EXCEPT !.entry = "STD", !.domain = domain],
                       names(domain), unknownParent)]
  /\ UNCHANGED <<variant, hardPoint, hardSkip, query>>

\* the continuation with the list of keys kept at module level, shared by the calls
Resume_sharedKeys(c) ==
  /\ calls[c].pc = "awaiting"
  /\ LET r == findProgramAddress(calls[c].pending, NAME_PROGRAM_ID)
     IN calls' = [d \in Calls |->
                    IF d = c THEN Continue(variant, calls[c], r)
                    ELSE IF r.ok /\ calls[d].pc = "awaiting"
                         THEN [calls[d] EXCEPT !.keys = <<r.value>> \o calls[d].keys]
                         ELSE calls[d]]
  /\ UNCHANGED <<variant, hardPoint, hardSkip, query>>

\* the promise of findProgramAddress settles and the call runs to its next await
Resume(c) ==
  /\ calls[c].pc = "awaiting"
  /\ calls' = [calls EXCEPT ![c] =
                 Continue(variant, calls[c],
                          findProgramAddress(calls[c].pending, NAME_PROGRAM_ID))]
  /\ UNCHANGED <<variant, hardPoint, hardSkip, query>>

\* ---------------------------------------------------------- RecordDecoder
KEY_LEN == 32

HEADER_LEN == 96

Min(a, b) == IF a < b THEN a ELSE b

\* a Buffer holding the given bytes, its bytes and its length
Buffer(bytes) == <<"Buffer", bytes>>

bytesOf(buf) == buf[2]

length(buf) == Len(buf[2])

\* Buffer.prototype.slice(start, end) and slice(start)
slice(buf, start, end) ==
  Buffer(SubSeq(bytesOf(buf), Min(start, length(buf)) + 1, Min(end, length(buf))))

sliceFrom(buf, start) == slice(buf, start, length(buf))

RECURSIVE stripLeadingZeros(_)
stripLeadingZeros(bytes) ==
  IF Len(bytes) > 0 /\ Head(bytes) = 0 THEN stripLeadingZeros(Tail(bytes)) ELSE bytes

\* new PublicKey(buffer): the bytes become a big number, of at most 32 bytes
PublicKeyOfBuffer(buf) ==
  IF Len(stripLeadingZeros(bytesOf(buf))) > KEY_LEN
  THEN Failure("Invalid public key input")
  ELSE Ok(<<"PublicKey", <<"bn", stripLeadingZeros(bytesOf(buf))>>>>)

\* PublicKey.toBuffer() of such a key: the number, zero padded to 32 bytes
keyToBuffer(pk) ==
  Buffer([k \in 1..(KEY_LEN - Len(pk[2][2])) |-> 0] \o pk[2][2])

IdleQuery ==
  [pc |-> "idle", nameKey |-> Undefined, accountInfo |-> Null,
   result |-> Undefined, error |-> "none"]

AccountNotFound == "Unable to find the given account."

InvalidData == "Invalid name account data"

\* src/src/index.ts
parseNameAccountInfo_index(nameAccount) ==
  IF nameAccount = Null THEN Failure(AccountNotFound)
  ELSE IF nameAccount.data = Undefined \/ length(nameAccount.data) < HEADER_LEN
  THEN Failure(InvalidData)
  ELSE LET parentNameKey == slice(nameAccount.data, 0, KEY_LEN)
           ownerKey == slice(nameAccount.data, 1 * KEY_LEN, 2 * KEY_LEN)
           classKey == slice(nameAccount.data, 2 * KEY_LEN, 3 * KEY_LEN)
           extra == sliceFrom(nameAccount.data, HEADER_LEN)
           parentName == PublicKeyOfBuffer(parentNameKey)
           owner == PublicKeyOfBuffer(ownerKey)
           class == PublicKeyOfBuffer(classKey)
       IN IF ~parentName.ok THEN parentName
          ELSE IF ~owner.ok THEN owner
          ELSE IF ~class.ok THEN class
          ELSE Ok([parentName |-> parentName.value,
                   owner |-> owner.value,
                   class |-> class.value,
                   data |-> extra,
                   lamports |-> nameAccount.lamports,
                   rentEpoch |-> nameAccount.rentEpoch])

\* the decoder rejecting a record of exactly the header's length
parseNameAccountInfo_part000_strict(nameKey, nameAccount) ==
  IF nameAccount = Null THEN Failure(AccountNotFound)
  ELSE IF nameAccount.data = Undefined \/ length(nameAccount.data) <= HEADER_LEN
  THEN Failure(InvalidData)
  ELSE Ok([nameAccount EXCEPT
             !.data = [name |-> nameKey,
                       parentName |-> PublicKeyOfBuffer(slice(nameAccount.data, 0, KEY_LEN)).value,
                       owner |-> PublicKeyOfBuffer(slice(nameAccount.data, 1 * KEY_LEN, 2 * KEY_LEN)).value,
                       class |-> PublicKeyOfBuffer(slice(nameAccount.data, 2 * KEY_LEN, 3 * KEY_LEN)).value,
                       extra |-> sliceFrom(nameAccount.data, HEADER_LEN)]])

\* the decoder reading the layout of the comment in the source: owner, class, parent
parseNameAccountInfo_part000_commentLayout(nameKey, nameAccount) ==
  IF nameAccount = Null THEN Failure(AccountNotFound)
  ELSE IF nameAccount.data = Undefined \/ length(nameAccount.data) < HEADER_LEN
  THEN Failure(InvalidData)
  ELSE Ok([nameAccount EXCEPT
             !.data = [name |-> nameKey,
                       owner |-> PublicKeyOfBuffer(slice(nameAccount.data, 0, KEY_LEN)).value,
                       class |-> PublicKeyOfBuffer(slice(nameAccount.data, 1 * KEY_LEN, 2 * KEY_LEN)).value,
                       parentName |-> PublicKeyOfBuffer(slice(nameAccount.data, 2 * KEY_LEN, 3 * KEY_LEN)).value,
                       extra |-> sliceFrom(nameAccount.data, HEADER_LEN)]])

\* src/unnamed/part_000
parseNameAccountInfo_part000(nameKey, nameAccount) ==
  IF nameAccount = Null THEN Failure(AccountNotFound)
  ELSE IF nameAccount.data = Undefined \/ length(nameAccount.data) < HEADER_LEN
  THEN Failure(InvalidData)
  ELSE LET parentNameKey == slice(nameAccount.data, 0, KEY_LEN)
           ownerKey == slice(nameAccount.data, 1 * KEY_LEN, 2 * KEY_LEN)
           classKey == slice(nameAccount.data, 2 * KEY_LEN, 3 * KEY_LEN)
           extra == sliceFrom(nameAccount.data, HEADER_LEN)
           parentName == PublicKeyOfBuffer(parentNameKey)
           owner == PublicKeyOfBuffer(ownerKey)
           class == PublicKeyOfBuffer(classKey)
       IN IF ~parentName.ok THEN parentName
          ELSE IF ~owner.ok THEN owner
          ELSE IF ~class.ok THEN class
          ELSE Ok([nameAccount EXCEPT
                     !.data = [name |-> nameKey,
                               parentName |-> parentName.value,
                               owner |-> owner.value,
                               class |-> class.value,
                               extra |-> extra]])

\* queryNameInfo: connection.getAccountInfo(nameKey, commitment) is called
queryNameInfo(nameKey) ==
  /\ query.pc = "idle"
  /\ query' = [query EXCEPT !.pc = "fetching", !.nameKey = nameKey]
  /\ UNCHANGED <<variant, calls, hardPoint, hardSkip>>

\* the Fetcher answers with an account or with null
getAccountInfo_settles(accountInfo) ==
  /\ query.pc = "fetching"
  /\ query' = [query EXCEPT !.pc = "fetched", !.accountInfo = accountInfo]
  /\ UNCHANGED <<variant, calls, hardPoint, hardSkip>>

\* .then(accountInfo => parseNameAccountInfo(nameKey, accountInfo))
thenParse ==
  /\ query.pc = "fetched"
  /\ LET r == IF variant = "index"
              THEN parseNameAccountInfo_index(query.accountInfo)
              ELSE parseNameAccountInfo_part000(query.nameKey, query.accountInfo)
     IN query' = [query EXCEPT !.pc = IF r.ok THEN "fulfilled" ELSE "rejected",
                               !.result = r.value,
                               !.error = r.error]
  /\ UNCHANGED <<variant, calls, hardPoint, hardSkip>>

\* ------------------------------------------------------- decoder's inputs
Fill(b) == [k \in 1..KEY_LEN |-> b]

Ramp(b) == [k \in 1..KEY_LEN |-> b + k]

LeadingZeros(b) == [k \in 1..KEY_LEN |-> IF 2 * k <= KEY_LEN THEN 0 ELSE b + k]

KeyBytes == {Fill(0), Ramp(1), LeadingZeros(201)}

Payloads == {[k \in 1..n |-> 240 + k] : n \in 0..MaxExtra}

Records == {p \o o \o c \o x : p \in KeyBytes, o \in KeyBytes, c \in KeyBytes, x \in Payloads}

ShortData == {SubSeq(Ramp(1) \o Ramp(33) \o Ramp(65), 1, n) : n \in 0..(HEADER_LEN - 1)}

Metas ==
  [executable : {FALSE}, owner : {NAME_PROGRAM_ID, ZeroKey},
   lamports : {<<"number", "0">>, <<"number", "953520">>},
   rentEpoch : {Undefined, <<"number", "371">>}]

Account(meta, data) ==
  [executable |-> meta.executable, owner |-> meta.owner, lamports |-> meta.lamports,
   rentEpoch |-> meta.rentEpoch, data |-> data]

Accounts ==
  {Null} \cup {Account(m, Undefined) : m \in Metas}
         \cup {Account(m, Buffer(d)) : m \in Metas, d \in Records \cup ShortData}

\* ---------------------------------------------------------- specifications
\* one call in flight, both entry points
Init ==
  /\ variant \in Variants
  /\ calls = [c \in Calls |-> IdleCall]
  /\ hardPoint \in Labels \X ParentClasses
  /\ hardSkip \in 0..MaxNonce
  /\ query = IdleQuery

Next ==
  \/ \E p \in Paths, u \in Parents : resolve_UTF8_ONS(1, p, u)
  \/ \E d \in Domains, u \in Parents : resolve_STD_ONS(1, d, u)
  \/ Resume(1)

Spec == Init /\ [][Next]_vars

\* NumCalls calls in flight, interleaved at their await points
InitConc ==
  /\ variant \in Variants
  /\ calls = [c \in Calls |-> IdleCall]
  /\ hardPoint \in ConcLabels \X ParentClasses
  /\ hardSkip \in 0..MaxNonce
  /\ query = IdleQuery

NextConc ==
  \/ \E c \in Calls, p \in ConcPaths, u \in ConcParents : resolve_UTF8_ONS(c, p, u)
  \/ \E c \in Calls : Resume(c)

SpecConc == InitConc /\ [][NextConc]_vars

\* one query of a name account: fetch, then decode
InitDecode ==
  /\ variant \in Variants
  /\ calls = [c \in Calls |-> IdleCall]
  /\ hardPoint = <<<<"a">>, "zero">>
  /\ hardSkip = 0
  /\ query = IdleQuery

NextDecode ==
  \/ \E k \in {ZeroKey, ExtKey} : queryNameInfo(k)
  \/ \E a \in Accounts : getAccountInfo_settles(a)
  \/ thenParse

SpecDecode == InitDecode /\ [][NextDecode]_vars

\* ------------------------------------------------- reference computations
\* a call run by itself from its entry to its end, with no other call around
RECURSIVE RunSteps(_, _, _)
RunSteps(v, st, k) ==
  IF k = 0 \/ st.pc # "awaiting" THEN st
  ELSE RunSteps(v, Continue(v, st, findProgramAddress(st.pending, NAME_PROGRAM_ID)), k - 1)

RunAlone(v, entry, domain, path, u) ==
  RunSteps(v, Enter(v, [IdleCall EXCEPT !.entry = entry, !.domain = domain], path, u),
           Len(path))

Outcome(st) == <<st.pc, st.result, st.error>>

OtherVariant(v) == IF v = "index" THEN "part000" ELSE "index"

\* AddressDeriver of the specification on explicit seed bytes
derive(digest, classBytes, parentBytes) ==
  findProgramAddress(<<digest, classBytes, parentBytes>>, NAME_PROGRAM_ID)

ParentBytes(u) == IF u = Undefined THEN Zero32 ELSE toBuffer(u)

Started(c) == calls[c].entry # "none"

Finished(c) == calls[c].pc \in {"resolved", "rejected"}

CountChar(s, ch) == Cardinality({k \in 1..Len(s) : s[k] = ch})

FlipCase(ch) == IF ch = "a" THEN "A" ELSE IF ch = "A" THEN "a" ELSE ch

\* the domains that differ from d in the case of one letter or in one blank
\* added or removed at either end
Respellings(d) ==
  {[d EXCEPT ![k] = FlipCase(d[k])] : k \in 1..Len(d)}
    \cup {<<" ">> \o d, d \o <<" ">>}
    \cup (IF Len(d) > 0 /\ d[1] = " " THEN {Tail(d)} ELSE {})
    \cup (IF Len(d) > 0 /\ d[Len(d)] = " " THEN {SubSeq(d, 1, Len(d) - 1)} ELSE {})

NumCompleted(log) == Cardinality({k \in 1..Len(log) : log[k][1] # "start"})

\* ------------------------------------------------------------------ claims

\* C1: a returned list has the length of the path; its last key is derived from
\* the hash of the last label, a zero class and the unknownParent (zero bytes
\* when absent); every other key is derived from the hash of its label, a zero
\* class and the key that follows it in the list.
C1_KeysChain ==
  \A c \in Calls :
    calls[c].pc = "resolved" =>
      LET st == calls[c]
          n == Len(st.path)
          keys == st.result
          last == derive(getHashedName(st.path[n]), Zero32, ParentBytes(st.unknownParent))
      IN /\ Len(keys) = n
         /\ last.ok /\ keys[n] = last.value
         /\ \A i \in 1..(n - 1) :
              LET d == derive(getHashedName(st.path[i]), Zero32, toBuffer(keys[i + 1]))
              IN d.ok /\ keys[i] = d.value

C1_Witness ==
  \E c \in Calls :
    /\ calls[c].pc = "resolved"
    /\ calls[c].entry = "UTF8"
    /\ calls[c].path = <<<<"a">>, <<"A">>>>
    /\ calls[c].unknownParent = ExtKey

\* C2: compositionality: the keys of a suffix of the path are the result of
\* resolving that suffix alone with the same unknownParent, and the keys of the
\* prefix before it are the result of resolving the prefix with the first key of
\* the suffix as parent; a failing call fails in one of the two parts.
C2_Compositional ==
  \A c \in Calls :
    Finished(c) /\ Len(calls[c].path) >= 2 =>
      LET st == calls[c]
          n == Len(st.path)
      IN \A k \in 1..(n - 1) :
           LET suf == RunAlone(variant, "UTF8", <<>>, SubSeq(st.path, k + 1, n),
                               st.unknownParent)
           IN IF st.pc = "resolved"
              THEN /\ suf.pc = "resolved"
                   /\ SubSeq(st.result, k + 1, n) = suf.result
                   /\ LET pre == RunAlone(variant, "UTF8", <<>>, SubSeq(st.path, 1, k),
                                          suf.result[1])
                      IN pre.pc = "resolved" /\ SubSeq(st.result, 1, k) = pre.result
              ELSE \/ suf.pc = "rejected"
                   \/ RunAlone(variant, "UTF8", <<>>, SubSeq(st.path, 1, k),
                               suf.result[1]).pc = "rejected"

C2_Witness ==
  \E c \in Calls :
    /\ calls[c].pc = "resolved"
    /\ Len(calls[c].path) = 2
    /\ calls[c].path[1] # calls[c].path[2]
    /\ calls[c].unknownParent = ZeroKey

\* C3: a call with a path of no labels is rejected with the empty path error,
\* whatever the unknownParent, without starting any derivation and without a
\* result list.
C3_EmptyPath ==
  \A c \in Calls :
    Started(c) /\ Len(calls[c].path) = 0 =>
      /\ calls[c].pc = "rejected"
      /\ calls[c].error = EmptyPathError
      /\ calls[c].result = Undefined
      /\ calls[c].log = <<>>
      /\ calls[c].pending = <<>>

C3_Witness ==
  \E c \in Calls :
    /\ calls[c].entry = "UTF8"
    /\ calls[c].path = <<>>
    /\ calls[c].unknownParent = ExtKey
    /\ calls[c].pc = "rejected"

\* C6: resolve_STD_ONS ends as resolve_UTF8_ONS does on the lower-cased, trimmed
\* and split domain; the path has one label more than the domain has dots; the
\* call never fails with the empty path error; and every respelling of the domain
\* in letter case or outer blanks ends with the same keys.
C6_StdNormalises ==
  \A c \in Calls :
    calls[c].entry = "STD" =>
      LET st == calls[c]
      IN /\ Len(st.path) = CountChar(st.domain, ".") + 1
         /\ st.error # EmptyPathError
         /\ \A k \in 1..Len(st.path) :
              \A j \in 1..Len(st.path[k]) : st.path[k][j] \notin {"A", "."}
         /\ st.pc = "resolved" => Len(st.result) = CountChar(st.domain, ".") + 1
         /\ Finished(c) =>
              /\ Outcome(st) =
                   Outcome(RunAlone(variant, "UTF8", <<>>, names(st.domain),
                                    st.unknownParent))
              /\ \A d2 \in Respellings(st.domain) :
                   Outcome(st) =
                     Outcome(RunAlone(variant, "STD", d2, names(d2), st.unknownParent))

C6_Witness ==
  \E c \in Calls :
    /\ calls[c].entry = "STD"
    /\ calls[c].domain = <<" ", "A", ".">>
    /\ calls[c].pc = "resolved"
    /\ Len(calls[c].result) = 2

\* C7: a derivation that finds no nonce ends the call: the call is rejected,
\* nothing is derived after it, no list is returned and the keys derived so far
\* are dropped; a returned list is never shorter than the path.
C7_FailFast ==
  \A c \in Calls :
    LET st == calls[c]
        n == Len(st.path)
    IN /\ (st.pc = "resolved" => Len(st.result) = n)
       /\ (\E k \in 1..Len(st.log) : st.log[k][1] = "throw") =>
            /\ st.log[Len(st.log)] = <<"throw", st.i>>
            /\ st.pc = "rejected"
            /\ st.error = "Unable to find a viable program address nonce"
            /\ st.result = Undefined
            /\ st.pending = <<>>
            /\ Len(st.log) = 2 * (n - st.i + 1)
            /\ Len(st.keys) = n - st.i
       /\ (st.pc = "rejected" /\ n > 0) =>
            /\ st.log # <<>>
            /\ st.log[Len(st.log)][1] = "throw"
            /\ ~derive(getHashedName(st.path[st.i]), Zero32,
                       ParentBytes(st.parentNameKey)).ok

C7_Witness ==
  \E c \in Calls :
    /\ calls[c].pc = "rejected"
    /\ Len(calls[c].path) = 2
    /\ calls[c].i = 1
    /\ Len(calls[c].keys) = 1
    /\ calls[c].result = Undefined

\* C9: whatever the interleaving, every call is at each instant in the state it
\* would be in when run alone for as many steps, so it returns what it returns
\* alone; the derivation of a label starts right after the derivation of the
\* label that follows it has completed.
C9_Independent ==
  \A c \in Calls :
    Started(c) =>
      LET st == calls[c]
          n == Len(st.path)
      IN /\ st = RunSteps(variant,
                          Enter(variant, [IdleCall EXCEPT !.entry = st.entry,
                                                          !.domain = st.domain],
                                st.path, st.unknownParent),
                          NumCompleted(st.log))
         /\ Finished(c) =>
              Outcome(st) = Outcome(RunAlone(variant, st.entry, st.domain, st.path,
                                             st.unknownParent))
         /\ \A k \in 1..Len(st.log) :
              st.log[k][1] = "start" =>
                IF st.log[k][2] = n THEN k = 1
                ELSE k > 1 /\ st.log[k - 1] = <<"end", st.log[k][2] + 1>>

C9_Witness ==
  \E c \in Calls, d \in Calls :
    /\ c # d
    /\ calls[c].pc = "awaiting" /\ Len(calls[c].keys) >= 1
    /\ calls[d].pc = "awaiting" /\ Len(calls[d].keys) >= 1
    /\ calls[c].unknownParent # calls[d].unknownParent

\* C10: in both variants every derivation of resolve_UTF8_ONS has zero bytes as
\* class seed and the running parent as parent seed, and a call ends as the same
\* call ends in the other variant.
C10_VariantsAgree ==
  \A c \in Calls :
    /\ calls[c].pc = "awaiting" =>
         /\ calls[c].pending[1] = getHashedName(calls[c].path[calls[c].i])
         /\ calls[c].pending[2] = Zero32
         /\ calls[c].pending[3] = ParentBytes(calls[c].parentNameKey)
    /\ Finished(c) =>
         Outcome(calls[c]) =
           Outcome(RunAlone(OtherVariant(variant), calls[c].entry, calls[c].domain,
                            calls[c].path, calls[c].unknownParent))

C10_Witness ==
  \E c \in Calls :
    /\ variant = "index"
    /\ calls[c].pc = "awaiting"
    /\ calls[c].i = 1
    /\ calls[c].pending[3] # Zero32
    /\ calls[c].unknownParent = Undefined

\* the fields of a decoded record, whichever variant decoded it
Decoded(r) ==
  IF variant = "index"
  THEN [parentName |-> r.parentName, owner |-> r.owner, class |-> r.class, payload |-> r.data]
  ELSE [parentName |-> r.data.parentName, owner |-> r.data.owner, class |-> r.data.class,
        payload |-> r.data.extra]

Parsed == query.pc \in {"fulfilled", "rejected"}

\* C4: decoding fails with the account-not-found error for an absent account and
\* with the invalid-record error for an account whose data is missing or shorter
\* than 96 bytes; it returns a record exactly when the data has 96 bytes or more.
C4_DecodeErrors ==
  Parsed =>
    LET a == query.accountInfo
    IN IF a = Null
       THEN query.pc = "rejected" /\ query.error = AccountNotFound
       ELSE IF a.data = Undefined
       THEN query.pc = "rejected" /\ query.error = InvalidData
       ELSE IF Len(a.data[2]) \in 0..95
       THEN query.pc = "rejected" /\ query.error = InvalidData
       ELSE Len(a.data[2]) >= 96 /\ query.pc = "fulfilled" /\ query.error = "none"

C4_Witness ==
  /\ query.pc = "fulfilled"
  /\ variant = "part000"
  /\ Len(query.accountInfo.data[2]) = 96

\* C5: decoding the concatenation of a parent, an owner, a class (32 bytes each)
\* and a payload returns keys whose bytes are the parent, the owner and the class
\* and a payload equal to the given one, empty when the record has 96 bytes.
C5_RoundTrip ==
  query.pc = "fulfilled" =>
    \A p \in KeyBytes, o \in KeyBytes, c \in KeyBytes, x \in Payloads :
      query.accountInfo.data = Buffer(p \o o \o c \o x) =>
        LET r == Decoded(query.result)
        IN /\ keyToBuffer(r.parentName) = Buffer(p)
           /\ keyToBuffer(r.owner) = Buffer(o)
           /\ keyToBuffer(r.class) = Buffer(c)
           /\ r.payload = Buffer(x)
           /\ Len(x) = Len(query.accountInfo.data[2]) - 96

C5_Witness ==
  /\ query.pc = "fulfilled"
  /\ variant = "part000"
  /\ query.accountInfo.data = Buffer(LeadingZeros(201) \o Ramp(1) \o Fill(0) \o <<241, 242>>)

\* C8: after a successful decode the owning program, the lamports and the rent
\* epoch of the result are those of the fetched account.
C8_PassThrough ==
  query.pc = "fulfilled" =>
    /\ query.result.owner = query.accountInfo.owner
    /\ query.result.lamports = query.accountInfo.lamports
    /\ query.result.rentEpoch = query.accountInfo.rentEpoch
====
